---------------------------- MODULE Spec2Model ----------------------------
(***************************************************************************)
(* A model of three parts of earthkit-data:                                *)
(*   - from_array / ArrayField           (sources/array_list.py)           *)
(*   - XArrayMetadata / XArrayField      (readers/netcdf/field.py)         *)
(*   - EarthkitBackendEntrypoint.open_dataset and the dataset builder it   *)
(*     hands its keyword arguments to    (utils/xarray/engine.py)          *)
(* Each part has its own specification over the shared variables; the      *)
(* variables of the other parts stay at their idle values.                 *)
(***************************************************************************)
EXTENDS Integers, Sequences, FiniteSets, TLC

VARIABLES
    array,      \* from_array: the `array` argument
    metadata,   \* from_array: the `metadata` argument
    result,     \* from_array: what the call produced
    field,      \* the XArrayField a metadata object is made for
    xmeta,      \* the XArrayMetadata object: its mapping, self.time, self._geo
    ret,        \* the last call on the metadata object and its outcome
    bbox_calls, \* number of ds.bbox(variable) calls so far
    request,    \* open_dataset: the field list and the keyword arguments
    dataset,    \* open_dataset: the dataset built, or the error
    accessor    \* the dataset accessor: its dataset, the attrs dicts, what it wrote

arrayVars == <<array, metadata, result>>
metaVars == <<field, xmeta, ret, bbox_calls>>
cubeVars == <<request, dataset>>
ncVars == <<accessor>>
vars == <<array, metadata, result, field, xmeta, ret, bbox_calls, request, dataset,
          accessor>>

(***************************************************************************)
(* Bounds of the model.                                                    *)
(***************************************************************************)
MaxDim == 2      \* largest axis length of an array or grid
MaxMeta == 2     \* longest metadata list, and number of distinct metadata objects
MaxList == 3     \* longest list of arrays
MaxRank == 2     \* largest number of axes of a single input array
MaxHalfHours == 2  \* times of day range over 0 .. MaxHalfHours half hours
MaxDay == 1      \* days after the first day that times range over
MaxFields == 4   \* longest field list given to open_dataset
MaxVars == 3     \* most data variables of a dataset written to netcdf
MaxCalls == 2    \* most to_netcdf calls on one accessor

(***************************************************************************)
(* Python values.  Values of different Python types are records with       *)
(* different field names, so that they compare unequal.                    *)
(***************************************************************************)
None == [none |-> TRUE]
IntV(n) == [i |-> n]
StrV(x) == [s |-> x]
BoolV(x) == [b |-> x]
Dt(secs) == [dt |-> secs]      \* a datetime, as seconds since 2020-01-01T00:00

\* Python dicts are functions from a set of keys.
EmptyDict == [k \in {} |-> None]
DictSet(d, key, v) == [k \in DOMAIN d \cup {key} |-> IF k = key THEN v ELSE d[k]]
DictGet(d, key, default) == IF key \in DOMAIN d THEN d[key] ELSE default

(***************************************************************************)
(* Idle values: what the variables of a part hold while another part runs. *)
(***************************************************************************)
NoRet == [op |-> "none", args |-> None, kind |-> "none", val |-> None]
NoMd == [status |-> "none", d |-> EmptyDict, time |-> None, geo |-> None]
MetaIdle == field = None /\ xmeta = NoMd /\ ret = NoRet /\ bbox_calls = 0
ArrayIdle == array = None /\ metadata = None /\ result = None
CubeIdle == request = None /\ dataset = None
NcIdle == accessor = None

(***************************************************************************)
(* Dense arrays: a shape (tuple of axis lengths) and the elements in       *)
(* row-major order.                                                        *)
(***************************************************************************)
RECURSIVE prod(_)
prod(shape) == IF shape = <<>> THEN 1 ELSE Head(shape) * prod(Tail(shape))

\* An array of the given shape whose k-th element is base + k.
MkArray(shape, base) ==
    [shape |-> shape, data |-> [k \in 1..prod(shape) |-> base + k]]

\* a[i] for 0 <= i < a.shape[0]: the i-th slice along the leading axis.
SliceAt(a, i) ==
    LET stride == prod(Tail(a.shape))
    IN  [shape |-> Tail(a.shape),
         data  |-> SubSeq(a.data, i * stride + 1, (i + 1) * stride)]

\* array_ns.stack([a]): a new leading axis of length 1.
Stack1(a) == [shape |-> <<1>> \o a.shape, data |-> a.data]

\* list(a) for an array of rank >= 1: its slices along the leading axis.
IterArray(a) == [k \in 1..a.shape[1] |-> SliceAt(a, k - 1)]

(***************************************************************************)
(* sources/array_list.py                                                   *)
(***************************************************************************)

\* A Metadata object as from_array sees it: its identity, the shape its
\* geography declares, and whether it carries internal (hidden) keys.
MetaObj(id, grid, internal) == [id |-> id, grid |-> grid, internal |-> internal]

\* metadata.geography.shape()
geography_shape(m) == m.grid

\* Metadata._hide_internal_keys(): the same metadata without its internal keys.
hide_internal_keys(m) == [m EXCEPT !.internal = FALSE]

\* ArrayField(array, metadata), for an array that is no Python list and a
\* metadata that is a Metadata object (a dict would first be wrapped into a
\* UserMetadata).
ArrayField(a, m) == [array |-> a, metadata |-> hide_internal_keys(m)]

\* array_namespace(array): None for a value that is no supported array.
array_namespace(arg) == IF arg.kind = "array" THEN "numpy" ELSE "None"

shape_match_any(shape1, shape2) == TRUE

shape_match(shape1, shape2) ==
    \/ shape1 = shape2
    \/ Len(shape1) = 1 /\ shape1[1] = prod(shape2)

\* if not isinstance(metadata, list): metadata = [metadata]
as_list(meta_arg) == meta_arg.items

list_check_longer(items, md) ==
    IF Len(items) = 0 THEN "ValueError"
    ELSE IF Len(items) > Len(md) THEN "ValueError"
    ELSE "ok"

\* The list-of-arrays checks: the empty list, then the length comparison.
list_check(items, md) ==
    IF Len(items) = 0 THEN "ValueError"
    ELSE IF Len(items) # Len(md) THEN "ValueError"
    ELSE "ok"

single_check_broadcast(arg, md) ==
    IF array_namespace(arg) = "None" THEN "ValueError"
    ELSE IF Len(arg.arr.shape) = 0 THEN "IndexError"
    ELSE IF arg.arr.shape[1] # Len(md)
         THEN IF Len(md) = 1 THEN "ok" ELSE "ValueError"
         ELSE "ok"

\* The single-array checks.  "stack" is the single-array, single-metadata
\* case; reading shape[0] of a 0-d array is an IndexError.
single_check(arg, md) ==
    IF array_namespace(arg) = "None" THEN "ValueError"
    ELSE IF Len(arg.arr.shape) = 0 THEN "IndexError"
    ELSE IF arg.arr.shape[1] # Len(md)
         THEN IF Len(md) = 1 /\ shape_match(arg.arr.shape, geography_shape(md[1]))
              THEN "stack"
              ELSE "ValueError"
         ELSE "ok"

build_fields_first(elems, md) ==
    [k \in 1..Len(elems) |-> ArrayField(elems[k], md[1])]

\* The loop over enumerate(array): the sole metadata, or the i-th one.
build_fields(elems, md) ==
    [k \in 1..Len(elems) |->
        IF Len(md) = 1 THEN ArrayField(elems[k], md[1])
                       ELSE ArrayField(elems[k], md[k])]

Raised(exc) == [status |-> exc, fields |-> <<>>]
Returned(fields) == [status |-> "ok", fields |-> fields]

from_array(arg, meta_arg) ==
    LET md == as_list(meta_arg)
    IN  IF arg.kind = "list"
        THEN LET c == list_check(arg.items, md)
             IN  IF c = "ok" THEN Returned(build_fields(arg.items, md))
                 ELSE Raised(c)
        ELSE LET c == single_check(arg, md)
             IN  CASE c = "ok"    -> Returned(build_fields(IterArray(arg.arr), md))
                   [] c = "stack" -> Returned(build_fields(IterArray(Stack1(arg.arr)), md))
                   [] OTHER       -> Raised(c)

(***************************************************************************)
(* Inputs of from_array.                                                   *)
(***************************************************************************)
SeqsUpTo(S, n) == UNION {[1..k -> S] : k \in 0..n}

ArrayShapes == SeqsUpTo(0..MaxDim, MaxRank)
GridShapes == UNION {[1..k -> 1..MaxDim] : k \in 1..2}

NoArray == MkArray(<<>>, 0)
\* The arrays a list of arrays is drawn from.
ListItems == {MkArray(<<2>>, 10), MkArray(<<2>>, 20)}

ArrayArgs ==
    {[kind |-> "array", arr |-> MkArray(sh, 0), items |-> <<>>] : sh \in ArrayShapes}
    \cup {[kind |-> "list", arr |-> NoArray, items |-> l] : l \in SeqsUpTo(ListItems, MaxList)}
    \cup {[kind |-> "other", arr |-> NoArray, items |-> <<>>]}

\* Metadata arguments: a list of metadata objects, or one object that is not
\* a list.  The objects of one call share a grid.
MetaArgs ==
    {[is_list |-> TRUE, items |-> [k \in 1..Len(ids) |-> MetaObj(ids[k], g, h)]] :
        ids \in SeqsUpTo(1..MaxMeta, MaxMeta), g \in GridShapes, h \in BOOLEAN}
    \cup {[is_list |-> FALSE, items |-> <<MetaObj(id, g, h)>>] :
        id \in 1..MaxMeta, g \in GridShapes, h \in BOOLEAN}

NotCalled == [status |-> "none", fields |-> <<>>]

InitArray ==
    /\ NcIdle
    /\ array \in ArrayArgs
    /\ metadata \in MetaArgs
    /\ result = NotCalled
    /\ MetaIdle
    /\ CubeIdle

FromArray ==
    /\ result.status = "none"
    /\ result' = from_array(array, metadata)
    /\ UNCHANGED <<array, metadata>>
    /\ UNCHANGED <<metaVars, cubeVars, ncVars>>

NextArray == FromArray

SpecArray == InitArray /\ [][NextArray]_vars

(***************************************************************************)
(* Claims about from_array (checked under SpecArray).                      *)
(***************************************************************************)
Called == result.status # "none"
MetaList == metadata.items          \* the metadata list the call works on
NMeta == Len(MetaList)

\* The array's full shape matches the grid shape the sole metadata declares:
\* equal to it, or 1-D with its length the product of that shape.
GridShapeMatches ==
    /\ array.kind = "array"
    /\ NMeta = 1
    /\ \/ array.arr.shape = MetaList[1].grid
       \/ Len(array.arr.shape) = 1 /\ array.arr.shape[1] = prod(MetaList[1].grid)

\* Field k carries the k-th metadata object.
FieldHasMeta(k) ==
    /\ result.fields[k].metadata.id = MetaList[k].id
    /\ result.fields[k].metadata.grid = MetaList[k].grid

\* C1 as stated: a successful from_array keeps input order, field i holding
\* the i-th list element (list form) or the i-th slice along the leading axis
\* (single-array form) and the i-th metadata object.
C1_OrderBySlices ==
    result.status = "ok" =>
        /\ Len(result.fields) = NMeta
        /\ \A k \in 1..NMeta :
            /\ FieldHasMeta(k)
            /\ result.fields[k].array =
                 IF array.kind = "list" THEN array.items[k]
                                        ELSE SliceAt(array.arr, k - 1)

\* C1 amended: a successful from_array keeps input order; field i holds the
\* i-th metadata object and the i-th list element (list form), or the i-th
\* slice along the leading axis when the array's leading-axis length equals
\* the number of metadata objects; otherwise (sole metadata, shape matching
\* its grid) the only field holds the whole array.
C1_InputOrder ==
    result.status = "ok" =>
        /\ Len(result.fields) = NMeta
        /\ \A k \in 1..NMeta :
            /\ FieldHasMeta(k)
            /\ result.fields[k].array =
                 IF array.kind = "list" THEN array.items[k]
                 ELSE IF array.arr.shape[1] = NMeta THEN SliceAt(array.arr, k - 1)
                 ELSE array.arr

C1_Witness ==
    /\ result.status = "ok"
    /\ Len(result.fields) = 2
    /\ result.fields[1].array # result.fields[2].array
    /\ result.fields[1].metadata.id # result.fields[2].metadata.id

\* C2: in list-of-arrays form an empty list, or a list whose length differs
\* from the number of metadata objects, is a ValueError and yields no
\* FieldCollection; a metadata that is not a list counts as one object.
C2_ListMismatchRaises ==
    (Called /\ array.kind = "list"
        /\ (Len(array.items) = 0 \/ Len(array.items) # NMeta))
    => (result.status = "ValueError" /\ result.fields = <<>>)

C2_Witness ==
    /\ Called
    /\ array.kind = "list"
    /\ ~metadata.is_list
    /\ Len(array.items) >= 2
    /\ result.status = "ValueError"

\* C3: a single array whose full shape matches the grid shape of the sole
\* metadata gives one field whose values are the whole array, whatever the
\* leading-axis length.
C3_WholeArrayKept ==
    (Called /\ GridShapeMatches) =>
        /\ result.status = "ok"
        /\ Len(result.fields) = 1
        /\ result.fields[1].array = array.arr

\* C4: in single-array form a leading-axis length different from the number
\* of metadata objects is a ValueError with no field built, unless the sole
\* metadata's grid shape matches the array's shape.
C4_CountMismatchRaises ==
    (Called /\ array.kind = "array" /\ Len(array.arr.shape) >= 1
        /\ array.arr.shape[1] # NMeta /\ ~GridShapeMatches)
    => (result.status = "ValueError" /\ result.fields = <<>>)

C4_Witness ==
    /\ Called
    /\ array.kind = "array"
    /\ Len(array.arr.shape) = 2
    /\ NMeta = 1
    /\ array.arr.shape[1] # NMeta
    /\ ~GridShapeMatches
    /\ result.status = "ValueError"

\* C14: a from_array call that returns gives as many fields as there are
\* metadata objects (one for a metadata that is no list); so a sole metadata
\* is never spread over more than one field.
C14_FieldCountIsMetaCount ==
    result.status = "ok" =>
        /\ Len(result.fields) = (IF metadata.is_list THEN Len(metadata.items) ELSE 1)
        /\ NMeta = 1 => Len(result.fields) <= 1

C14_Witness ==
    /\ result.status = "ok"
    /\ ~metadata.is_list
    /\ array.kind = "array"
    /\ array.arr.shape = <<2, 2>>
    /\ Len(result.fields) = 1


(***************************************************************************)
(* readers/netcdf/field.py                                                 *)
(***************************************************************************)
NAMESPACES == {"default", "mars"}
MARS_KEYS == {"param", "step", "levelist", "levtype", "number", "date", "time"}

\* to_datetime(x) for a value that already is a point in time.
to_datetime(x) == x

\* int(date.strftime("%Y%m%d")) for a datetime in January 2020.
strftime_Ymd(t) == 20200101 + (t.dt \div 86400)

\* int(date.strftime("%H%M"))
strftime_HM(t) == ((t.dt % 86400) \div 3600) * 100 + ((t.dt % 3600) \div 60)

plus_hours(t, h) == Dt(t.dt + 3600 * h)

\* dt - timedelta(hours=h)
minus_hours(t, h) == Dt(t.dt - 3600 * h)

\* The loop over field.slices: the last TimeSlice sets time, the last
\* LevelSlice sets level and level_type.
RECURSIVE scan_slices(_, _)
scan_slices(slices, acc) ==
    IF slices = <<>> THEN acc
    ELSE LET sl == Head(slices)
             a1 == IF sl.cls = "TimeSlice" THEN [acc EXCEPT !.time = sl.value] ELSE acc
             a2 == IF sl.cls = "LevelSlice"
                   THEN [a1 EXCEPT !.level = sl.value,
                                   !.level_type = IF sl.name = "pressure" THEN "pl" ELSE sl.name]
                   ELSE a1
         IN  scan_slices(Tail(slices), a2)

\* field.ds: XArrayField.__init__ sets _ds and no ds, so the lookup goes to
\* the base class Field, which either gives the dataset under that name or
\* has no such attribute.
field_ds(f, base_has_ds) ==
    IF base_has_ds THEN [kind |-> "return", val |-> f._ds]
    ELSE [kind |-> "AttributeError", val |-> None]

\* XArrayMetadata.__init__(field) for an XArrayField whose dataset holds a
\* scalar forecast_reference_time or none: the object, the AttributeError
\* of field.ds, or the failed assertion that the step is a whole number of
\* hours.
XArrayMetadata_init(f, base_has_ds) ==
    LET d0 == f.attrs
        t0 == DictGet(f.non_dim_coords, "valid_time",
                      DictGet(f.non_dim_coords, "time", None))
        sc == scan_slices(f.slices, [time |-> t0, level |-> None, level_type |-> "sfc"])
        time == sc.time
        has_frt == f._ds.forecast_reference_time # None
        ds == field_ds(f, base_has_ds)
        secs == IF time # None /\ has_frt /\ ds.kind = "return"
                THEN time.dt - ds.val.forecast_reference_time.dt ELSE 0
        step == secs \div 3600
        d1 == IF time # None /\ has_frt THEN DictSet(d0, "step", IntV(step)) ELSE d0
        date == minus_hours(to_datetime(time), step)
        d2 == IF time # None
              THEN DictSet(DictSet(d1, "date", IntV(strftime_Ymd(date))),
                           "time", IntV(strftime_HM(date)))
              ELSE d1
        d3 == DictSet(DictSet(DictSet(d2, "variable", StrV(f.variable)),
                              "level", sc.level),
                      "levtype", StrV(sc.level_type))
    IN  IF time # None /\ has_frt /\ ds.kind = "AttributeError"
        THEN [status |-> "AttributeError", d |-> EmptyDict, time |-> None, geo |-> None]
        ELSE IF secs % 3600 # 0
        THEN [status |-> "AssertionError", d |-> EmptyDict, time |-> None, geo |-> None]
        ELSE [status |-> "ok", d |-> d3,
              time |-> IF time # None THEN to_datetime(time) ELSE None,
              geo |-> None]

\* RawMetadata._get(key, default=None, raise_on_missing=False): the lookup
\* in the underlying mapping.
raw_get(d, key, kwargs) ==
    IF key \in DOMAIN d THEN [kind |-> "return", val |-> d[key]]
    ELSE IF DictGet(kwargs, "raise_on_missing", BoolV(FALSE)) = BoolV(TRUE)
         THEN [kind |-> "KeyError", val |-> None]
         ELSE [kind |-> "return", val |-> DictGet(kwargs, "default", None)]

key_name_param_only(key) == IF key = "param" THEN "variable" ELSE key

\* _get._key_name
key_name(key) ==
    IF key = "param" THEN "variable"
    ELSE IF key = "levelist" THEN "level"
    ELSE key

\* A key is its "mars." prefix (or none) and the rest of the string.
Key(prefix, name) == [prefix |-> prefix, name |-> name]

\* XArrayMetadata._get(key, **kwargs)
xget(m, key, kwargs) ==
    IF key.prefix = "mars." /\ key.name \notin MARS_KEYS
    THEN IF DictGet(kwargs, "raise_on_missing", BoolV(FALSE)) = BoolV(TRUE)
         THEN [kind |-> "KeyError", val |-> None]
         ELSE [kind |-> "return", val |-> DictGet(kwargs, "default", None)]
    ELSE raw_get(m.d, key_name(key.name), kwargs)

\* Metadata.get(key, default) and Metadata.__getitem__(key) on this class.
mget(m, name, default) == xget(m, Key("", name), [k \in {"default"} |-> default]).val
mitem(m, name) == xget(m, Key("", name), [k \in {"raise_on_missing"} |-> BoolV(TRUE)]).val

\* XArrayMetadata._as_mars()
as_mars(m) ==
    [k \in MARS_KEYS |->
        CASE k = "param"    -> mitem(m, "variable")
          [] k = "step"     -> mget(m, "step", None)
          [] k = "levelist" -> mitem(m, "level")
          [] k = "levtype"  -> mitem(m, "levtype")
          [] k = "number"   -> None
          [] k = "date"     -> mget(m, "date", None)
          [] k = "time"     -> mget(m, "time", None)]

\* XArrayMetadata.as_namespace(namespace): the function falls off its end,
\* returning None, for any other string.
as_namespace(m, namespace) ==
    IF namespace # None /\ DOMAIN namespace # {"s"}
    THEN [kind |-> "TypeError", val |-> None]
    ELSE IF namespace = StrV("default") \/ namespace = StrV("") \/ namespace = None
    THEN [kind |-> "return", val |-> m.d]
    ELSE IF namespace = StrV("mars")
    THEN [kind |-> "return", val |-> as_mars(m)]
    ELSE [kind |-> "return", val |-> None]

\* XArrayMetadata._valid_datetime()
valid_datetime(m) == IF m.time # None THEN to_datetime(m.time) ELSE None

\* XArrayMetadata._base_datetime()
base_datetime(m) ==
    LET v == valid_datetime(m)
    IN  IF v # None THEN minus_hours(v, mget(m, "hour", IntV(0)).i) ELSE None

override_update(m, kwargs) ==
    [md |-> [m EXCEPT !.d = [k \in DOMAIN m.d \cup DOMAIN kwargs |->
                                 IF k \in DOMAIN kwargs THEN kwargs[k] ELSE m.d[k]]],
     val |-> None]

\* XArrayMetadata.override(*args, **kwargs): the metadata after the call and
\* the value returned.
override(m, kwargs) == [md |-> m, val |-> None]

\* XArrayFieldGeography(metadata, data_array, ds, variable): one ds.bbox call.
XArrayFieldGeography(n) == [geo_id |-> n]

(***************************************************************************)
(* The fields a metadata object is made for.                               *)
(***************************************************************************)
TimeVals ==
    {h * 1800 : h \in 0..MaxHalfHours} \cup {d * 86400 : d \in 1..MaxDay}

TimeSlice(t) == [cls |-> "TimeSlice", name |-> "time", value |-> Dt(t)]
LevelSlice(name, v) == [cls |-> "LevelSlice", name |-> name, value |-> IntV(v)]

OneKey(k, v) == [x \in {k} |-> v]

\* Where a field's time comes from: nowhere, a non-dimension coordinate
\* ("time", "valid_time", or both), or a TimeSlice (alone, or over a
\* coordinate that it overrides).
TimeConfigs ==
    {[ndc |-> EmptyDict, tslices |-> <<>>]}
    \cup UNION {
        { [ndc |-> OneKey("time", Dt(t)), tslices |-> <<>>],
          [ndc |-> OneKey("valid_time", Dt(t)), tslices |-> <<>>],
          [ndc |-> DictSet(OneKey("valid_time", Dt(t)), "time", Dt(t + 1800)),
           tslices |-> <<>>],
          [ndc |-> EmptyDict, tslices |-> <<TimeSlice(t)>>],
          [ndc |-> OneKey("valid_time", Dt(t + 1800)), tslices |-> <<TimeSlice(t)>>] }
        : t \in TimeVals }

LevelConfigs == {<<>>, <<LevelSlice("pressure", 500)>>, <<LevelSlice("height", 2)>>}

AttrConfigs ==
    { EmptyDict,
      DictSet(OneKey("units", StrV("K")), "hour", IntV(1)),
      OneKey("step", IntV(3)) }

FrtConfigs == {None} \cup {Dt(t) : t \in TimeVals}

Fields ==
    {[variable |-> "t", attrs |-> a, non_dim_coords |-> tc.ndc,
      slices |-> tc.tslices \o lv, _ds |-> [forecast_reference_time |-> frt]] :
        a \in AttrConfigs, tc \in TimeConfigs, lv \in LevelConfigs, frt \in FrtConfigs}

GetKeys ==
    {Key("mars.", n) : n \in {"param", "levelist", "step", "number", "variable", "foo"}}
    \cup {Key("", n) : n \in {"param", "units"}}

KwargsSet ==
    { EmptyDict,
      OneKey("default", IntV(7)),
      OneKey("raise_on_missing", BoolV(TRUE)),
      DictSet(OneKey("default", IntV(7)), "raise_on_missing", BoolV(FALSE)) }

NamespaceArgs == {None, StrV("default"), StrV(""), StrV("mars"), StrV("grib"), IntV(1)}

OverrideArgs == {EmptyDict, OneKey("level", IntV(850))}

InitMeta ==
    /\ NcIdle
    /\ field \in Fields
    /\ xmeta = NoMd
    /\ ret = NoRet
    /\ bbox_calls = 0
    /\ ArrayIdle
    /\ CubeIdle

Called1(op, args, outcome) ==
    [op |-> op, args |-> args, kind |-> outcome.kind, val |-> outcome.val]

\* XArrayField._make_metadata()
MakeMetadata ==
    /\ xmeta.status = "none"
    /\ \E base_has_ds \in BOOLEAN : xmeta' = XArrayMetadata_init(field, base_has_ds)
    /\ UNCHANGED <<field, ret, bbox_calls>>
    /\ UNCHANGED <<arrayVars, cubeVars, ncVars>>

Override ==
    /\ xmeta.status = "ok"
    /\ \E kw \in OverrideArgs :
        LET o == override(xmeta, kw)
        IN  /\ xmeta' = o.md
            /\ ret' = Called1("override", kw, [kind |-> "return", val |-> o.val])
    /\ UNCHANGED <<field, bbox_calls>>
    /\ UNCHANGED <<arrayVars, cubeVars, ncVars>>

GeographyRebuilt ==
    /\ xmeta.status = "ok"
    /\ xmeta' = [xmeta EXCEPT !.geo = XArrayFieldGeography(bbox_calls + 1)]
    /\ bbox_calls' = bbox_calls + 1
    /\ ret' = Called1("geography", None, [kind |-> "return", val |-> xmeta'.geo])
    /\ UNCHANGED field
    /\ UNCHANGED <<arrayVars, cubeVars, ncVars>>

\* The geography property: built on the first access, then reused.
Geography ==
    /\ xmeta.status = "ok"
    /\ IF xmeta.geo = None
       THEN /\ xmeta' = [xmeta EXCEPT !.geo = XArrayFieldGeography(bbox_calls + 1)]
            /\ bbox_calls' = bbox_calls + 1
       ELSE UNCHANGED <<xmeta, bbox_calls>>
    /\ ret' = Called1("geography", None, [kind |-> "return", val |-> xmeta'.geo])
    /\ UNCHANGED field
    /\ UNCHANGED <<arrayVars, cubeVars, ncVars>>

AsNamespace ==
    /\ xmeta.status = "ok"
    /\ \E ns \in NamespaceArgs :
        ret' = Called1("as_namespace", ns, as_namespace(xmeta, ns))
    /\ UNCHANGED <<field, xmeta, bbox_calls>>
    /\ UNCHANGED <<arrayVars, cubeVars, ncVars>>

Get ==
    /\ xmeta.status = "ok"
    /\ \E key \in GetKeys, kw \in KwargsSet :
        ret' = Called1("_get", [key |-> key, kwargs |-> kw], xget(xmeta, key, kw))
    /\ UNCHANGED <<field, xmeta, bbox_calls>>
    /\ UNCHANGED <<arrayVars, cubeVars, ncVars>>

ValidDatetime ==
    /\ xmeta.status = "ok"
    /\ ret' = Called1("_valid_datetime", None,
                      [kind |-> "return", val |-> valid_datetime(xmeta)])
    /\ UNCHANGED <<field, xmeta, bbox_calls>>
    /\ UNCHANGED <<arrayVars, cubeVars, ncVars>>

BaseDatetime ==
    /\ xmeta.status = "ok"
    /\ ret' = Called1("_base_datetime", None,
                      [kind |-> "return", val |-> base_datetime(xmeta)])
    /\ UNCHANGED <<field, xmeta, bbox_calls>>
    /\ UNCHANGED <<arrayVars, cubeVars, ncVars>>

NextMeta ==
    \/ MakeMetadata
    \/ Override
    \/ Geography
    \/ AsNamespace
    \/ Get
    \/ ValidDatetime
    \/ BaseDatetime

SpecMeta == InitMeta /\ [][NextMeta]_vars

(***************************************************************************)
(* Claims about XArrayMetadata (checked under SpecMeta).                   *)
(***************************************************************************)

\* C5: as_namespace with a namespace name that is a string other than
\* "default", "" and "mars" raises a lookup error instead of returning.
C5_UnsupportedNamespaceRaises ==
    (ret.op = "as_namespace"
        /\ DOMAIN ret.args = {"s"}
        /\ ret.args.s \notin (NAMESPACES \cup {""}))
    => ret.kind \in {"KeyError", "LookupError"}

\* The key "mars.<k>" is looked up as: variable for param, level for levelist.
MarsKeyRenamed(k) ==
    CASE k = "param"    -> "variable"
      [] k = "levelist" -> "level"
      [] OTHER          -> k

\* C6: _get("mars.<k>") for k outside the mars keys returns the caller's
\* default (None without one) unless raise_on_missing is true, when it raises
\* a KeyError; for a mars key the result is that of the underlying mapping's
\* lookup of k, with param renamed to variable and levelist to level.
C6_MarsKeyLookup ==
    (ret.op = "_get" /\ ret.args.key.prefix = "mars.") =>
        LET k == ret.args.key.name
            kw == ret.args.kwargs
            rom == "raise_on_missing" \in DOMAIN kw /\ kw["raise_on_missing"] = BoolV(TRUE)
            dflt == IF "default" \in DOMAIN kw THEN kw["default"] ELSE None
            name == MarsKeyRenamed(k)
        IN  IF k \notin {"param", "step", "levelist", "levtype", "number", "date", "time"}
            THEN IF rom THEN ret.kind = "KeyError"
                        ELSE ret.kind = "return" /\ ret.val = dflt
            ELSE IF name \in DOMAIN xmeta.d
                 THEN ret.kind = "return" /\ ret.val = xmeta.d[name]
                 ELSE IF rom THEN ret.kind = "KeyError"
                             ELSE ret.kind = "return" /\ ret.val = dflt

C6_Witness ==
    /\ ret.op = "_get"
    /\ ret.args.key = Key("mars.", "levelist")
    /\ ret.kind = "return"
    /\ ret.val = IntV(500)

\* C7: a call of override, whatever its arguments, returns None and changes
\* nothing of the metadata: its mapping, its time and its memoized geography.
C7_OverrideChangesNothing ==
    [][ret'.op = "override" =>
        (ret'.val = None /\ xmeta' = xmeta /\ bbox_calls' = bbox_calls)]_vars

C7_Witness ==
    /\ ret.op = "override"
    /\ ret.args # EmptyDict
    /\ xmeta.geo # None
    /\ xmeta.time # None

\* C8: _valid_datetime returns the field's time and _base_datetime that time
\* minus the forecast step, so that for a field with a forecast reference
\* time and step s, _base_datetime + s hours = _valid_datetime; with no time
\* both return None.
C8_BasePlusStepIsValid ==
    /\ ret.op = "_valid_datetime" => ret.val = xmeta.time
    /\ (ret.op = "_base_datetime" /\ xmeta.time = None) => ret.val = None
    /\ (ret.op = "_base_datetime" /\ xmeta.time # None
            /\ field._ds.forecast_reference_time # None)
       => ret.val = Dt(xmeta.time.dt - 3600 * xmeta.d["step"].i)

\* C12: the geography is built lazily and memoized: none is constructed
\* before the first geography access, the first access constructs one, and
\* every access returns that same instance without another construction, so
\* ds.bbox is called at most once for a metadata object.
C12_GeographyMemoized ==
    [][ /\ bbox_calls' # bbox_calls
            => (ret'.op = "geography" /\ xmeta.geo = None /\ bbox_calls' = 1)
        /\ xmeta.geo # None => xmeta'.geo = xmeta.geo
        /\ xmeta.status = "ok" => (xmeta.geo = None <=> bbox_calls = 0)
        /\ ret'.op = "geography" => (ret'.val = xmeta'.geo /\ ret'.val # None)
      ]_vars

C12_Witness ==
    /\ ret.op = "geography"
    /\ ret.val = xmeta.geo
    /\ bbox_calls = 1

\* The field's time: that of its last TimeSlice, else its valid_time
\* coordinate, else its time coordinate, else none.
FieldTime ==
    LET ts == {k \in 1..Len(field.slices) : field.slices[k].cls = "TimeSlice"}
    IN  IF ts # {} THEN field.slices[CHOOSE k \in ts : \A j \in ts : j <= k].value
        ELSE IF "valid_time" \in DOMAIN field.non_dim_coords
             THEN field.non_dim_coords["valid_time"]
        ELSE IF "time" \in DOMAIN field.non_dim_coords
             THEN field.non_dim_coords["time"]
        ELSE None

\* The mapping's date and time keys encode the datetime t as YYYYMMDD and HHMM.
EncodesDateTime(t) ==
    /\ {"date", "time"} \subseteq DOMAIN xmeta.d
    /\ xmeta.d["date"] = IntV(20200101 + t.dt \div 86400)
    /\ xmeta.d["time"] = IntV(((t.dt % 86400) \div 3600) * 100 + ((t.dt % 3600) \div 60))

\* The key is in the mapping only as the data array's attribute of that name.
OnlyFromAttrs(key) ==
    IF key \in DOMAIN field.attrs
    THEN key \in DOMAIN xmeta.d /\ xmeta.d[key] = field.attrs[key]
    ELSE key \notin DOMAIN xmeta.d

\* C15: for a metadata made for a field with a time: with a
\* forecast_reference_time in the dataset, construction fails unless the
\* difference is a whole number of hours, and where it succeeds step is that
\* number and (date, time) encode the reference time; without one no step is
\* added and (date, time) encode the field's time.  With no time, no date
\* and no time are added.
C15_StepDateTime ==
    xmeta.status # "none" =>
        LET t == FieldTime
            frt == field._ds.forecast_reference_time
        IN  IF t = None
            THEN xmeta.status = "ok" /\ OnlyFromAttrs("date") /\ OnlyFromAttrs("time")
            ELSE IF frt = None
            THEN xmeta.status = "ok" /\ OnlyFromAttrs("step") /\ EncodesDateTime(t)
            ELSE IF (t.dt - frt.dt) % 3600 # 0
            THEN xmeta.status \in {"AssertionError", "AttributeError"}
            ELSE /\ xmeta.status \in {"ok", "AttributeError"}
                 /\ xmeta.status = "ok" =>
                     /\ xmeta.d["step"] = IntV((t.dt - frt.dt) \div 3600)
                     /\ t.dt - 3600 * xmeta.d["step"].i = frt.dt
                     /\ EncodesDateTime(frt)

C15_Witness ==
    /\ xmeta.status = "ok"
    /\ field._ds.forecast_reference_time = Dt(0)
    /\ xmeta.time = Dt(86400)
    /\ xmeta.d["step"] = IntV(24)
    /\ xmeta.d["date"] = IntV(20200101)
    /\ xmeta.d["time"] = IntV(0)


(***************************************************************************)
(* utils/xarray/engine.py: open_dataset, and the dataset builder it hands  *)
(* its keyword arguments to.                                               *)
(***************************************************************************)
ListV(S) == [l |-> S]      \* a list of dimension names

\* The default dim_roles: each role's metadata key.
DefaultDimRoles ==
    [role \in {"ens", "date", "time", "step", "forecast_reference_time",
               "valid_date", "level", "level_type"} |->
        CASE role = "ens"        -> StrV("number")
          [] role = "date"       -> StrV("dataDate")
          [] role = "time"       -> StrV("dataTime")
          [] role = "step"       -> StrV("step")
          [] role = "level"      -> StrV("level")
          [] role = "level_type" -> StrV("typeOfLevel")
          [] OTHER               -> None]

\* The predefined dimensions, in their fixed order, with time_dim_mode and
\* level_dim_mode at their defaults ("forecast" and "level"): the ensemble
\* dimension, the two temporal dimensions forecast_reference_time and step,
\* and the vertical dimension.  The ensemble and the vertical dimension are
\* named by the metadata key of their role.
PredefinedDims(roles) ==
    <<roles["ens"].s, "forecast_reference_time", "step", roles["level"].s>>

\* The datetime made of a date (YYYYMMDD, in January 2020) and a time (HHMM).
datetime_from(date, time) ==
    Dt((date - 20200101) * 86400 + (time \div 100) * 3600 + (time % 100) * 60)

\* The value of a field on a predefined dimension: forecast_reference_time
\* is the key of that role when the role names one, else it is built from
\* the keys of the "date" and "time" roles; step is the key of the "step"
\* role; the others are the metadata key the dimension is named by.
dim_value(f, dim, roles) ==
    CASE dim = "forecast_reference_time" ->
            IF roles["forecast_reference_time"] # None
            THEN f[roles["forecast_reference_time"].s]
            ELSE datetime_from(f[roles["date"].s], f[roles["time"].s])
      [] dim = "step" -> f[roles["step"].s]
      [] OTHER -> f[dim]

\* The keyword arguments open_dataset hands on to the builder.
KwargNames ==
    {"profile", "variable_key", "drop_variables", "rename_variables", "extra_dims",
     "drop_dims", "ensure_dims", "fixed_dims", "rename_dims", "dim_roles",
     "dims_as_attrs", "time_dim_mode", "level_dim_mode", "squeeze", "attrs_mode",
     "attrs", "variable_attrs", "global_attrs", "coord_attrs", "rename_attrs",
     "add_valid_time_coord", "add_geo_coords", "flatten_values", "remapping",
     "decode_times", "decode_timedelta", "strict", "dtype", "array_module", "errors"}

open_dataset_kwargs_no_strict(args) ==
    [k \in KwargNames |-> IF k = "strict" THEN None ELSE args[k]]

open_dataset_kwargs_no_ensure(args) ==
    [k \in KwargNames |-> IF k = "ensure_dims" THEN None ELSE args[k]]

open_dataset_kwargs_no_roles(args) ==
    [k \in KwargNames |-> IF k = "dim_roles" THEN None ELSE args[k]]

\* _kwargs = dict(profile=profile, variable_key=variable_key, ..., errors=errors)
open_dataset_kwargs(args) == [k \in KwargNames |-> args[k]]

\* A keyword argument left at None takes the profile's value, and the
\* built-in default when the profile gives none.
expand(kwargs, name, builtin) ==
    IF kwargs[name] # None THEN kwargs[name]
    ELSE DictGet(kwargs.profile, name, builtin)

\* dict.update: the keys of upd take upd's values, the others keep theirs.
dict_update(base, upd) ==
    [k \in DOMAIN base \cup DOMAIN upd |-> IF k \in DOMAIN upd THEN upd[k] ELSE base[k]]

\* The role table: the profile's table (the default one when the profile
\* gives none), updated with the dim_roles keyword argument.
resolve_dim_roles(kwargs) ==
    LET base == DictGet(kwargs.profile, "dim_roles", DefaultDimRoles)
    IN  IF kwargs.dim_roles = None THEN base ELSE dict_update(base, kwargs.dim_roles)

\* The settings a builder works with.
builder_settings(kwargs) ==
    [strict  |-> expand(kwargs, "strict", BoolV(FALSE)).b,
     squeeze |-> expand(kwargs, "squeeze", BoolV(TRUE)).b,
     dim_roles |-> resolve_dim_roles(kwargs),
     ensure_dims |-> IF kwargs.ensure_dims = None THEN {} ELSE kwargs.ensure_dims.l,
     dims_as_attrs |-> IF kwargs.dims_as_attrs = None THEN {} ELSE kwargs.dims_as_attrs.l]

\* The distinct values of a dimension, in first-seen order.
RECURSIVE distinct_values(_, _, _, _)
distinct_values(fields, dim, roles, seen) ==
    IF fields = <<>> THEN seen
    ELSE LET v == dim_value(Head(fields), dim, roles)
         IN  distinct_values(Tail(fields), dim, roles,
                 IF \E k \in 1..Len(seen) : seen[k] = v THEN seen ELSE Append(seen, v))

\* The coordinate tuple of a field.
coords_of(f, dims, roles) == [k \in 1..Len(dims) |-> dim_value(f, dims[k], roles)]

SeqRange(sq) == {sq[k] : k \in 1..Len(sq)}

\* build(): dimension enumeration, dims_as_attrs, squeeze, scatter and the
\* strict check, for the keyword arguments that are not modelled left at
\* None.  A dimension of dims_as_attrs with one value is turned into a
\* variable attribute; squeeze removes the other dimensions with one value
\* and makes no attribute of them.  A dimension of ensure_dims is kept.
build(fields, st) ==
    LET all == PredefinedDims(st.dim_roles)
        vals == [d \in SeqRange(all) |-> distinct_values(fields, d, st.dim_roles, <<>>)]
        AsAttr(d) == d \in st.dims_as_attrs /\ Len(vals[d]) = 1 /\ d \notin st.ensure_dims
        Kept(d) == /\ ~AsAttr(d)
                   /\ ~st.squeeze \/ Len(vals[d]) # 1 \/ d \in st.ensure_dims
        dims == SelectSeq(all, Kept)
        dropped == {d \in DOMAIN vals : AsAttr(d)}
        cells == {<<a, b, c, d>> : a \in SeqRange(vals[all[1]]), b \in SeqRange(vals[all[2]]),
                                   c \in SeqRange(vals[all[3]]), d \in SeqRange(vals[all[4]])}
        Writers(c) == {k \in 1..Len(fields) : coords_of(fields[k], all, st.dim_roles) = c}
        duplicate == \E c \in cells : Cardinality(Writers(c)) > 1
        hole == \E c \in cells : Writers(c) = {}
    IN  IF st.strict /\ (duplicate \/ hole)
        THEN [status |-> "AssemblyError", dim_roles |-> st.dim_roles,
              dims |-> <<>>, shape |-> <<>>, attrs |-> EmptyDict, data |-> EmptyDict]
        ELSE [status |-> "ok",
              dim_roles |-> st.dim_roles,
              dims   |-> dims,
              shape  |-> [k \in 1..Len(dims) |-> Len(vals[dims[k]])],
              attrs  |-> [d \in dropped |-> vals[d][1]],
              \* each cell holds the last field written to it, 0 when unfilled
              data   |-> [c \in cells |->
                            IF Writers(c) = {} THEN 0
                            ELSE CHOOSE k \in Writers(c) : \A j \in Writers(c) : j <= k]]

\* EarthkitBackendEntrypoint.open_dataset
open_dataset(req) ==
    LET _kwargs == open_dataset_kwargs(req.args)
    IN  IF req.fieldlist.ek_builder # None
        THEN build(req.fieldlist.fields, req.fieldlist.ek_builder)
        ELSE build(req.fieldlist.fields, builder_settings(_kwargs))

(***************************************************************************)
(* Inputs of open_dataset.                                                 *)
(***************************************************************************)
FieldKeys == [number : {1, 2}, dataDate : {20200101}, dataTime : {1200},
              step : {0, 6}, level : {500}]
FieldLists == UNION {[1..n -> FieldKeys] : n \in 1..MaxFields}

OptBool == {None, BoolV(TRUE), BoolV(FALSE)}
Profiles == {EmptyDict,
             DictSet(OneKey("strict", BoolV(TRUE)), "squeeze", BoolV(FALSE))}
EnsureDims == {None, ListV({"level"}), ListV({"number", "level"})}
\* The dims_as_attrs arguments.  The docstrings leave open which of
\* ensure_dims and dims_as_attrs wins for a dimension named in both; the
\* inputs name no dimension in both.
DimsAsAttrs == {None, ListV({"forecast_reference_time", "step"})}
NoKwargs == [k \in KwargNames |-> None]
EkBuilders == {None, [strict |-> TRUE, squeeze |-> TRUE, ensure_dims |-> {"number"},
                      dims_as_attrs |-> {"step"},
                      dim_roles |-> DefaultDimRoles]}

Requests ==
    {[fieldlist |-> [fields |-> fl, ek_builder |-> ekb],
      args |-> [NoKwargs EXCEPT !["profile"] = pr, !["ensure_dims"] = en,
                                !["dims_as_attrs"] = da, !["squeeze"] = sq,
                                !["strict"] = sr]] :
        fl \in FieldLists, ekb \in EkBuilders, pr \in Profiles,
        en \in EnsureDims, da \in DimsAsAttrs, sq \in OptBool, sr \in OptBool}

NotBuilt == [status |-> "none", dim_roles |-> EmptyDict, dims |-> <<>>, shape |-> <<>>,
             attrs |-> EmptyDict, data |-> EmptyDict]

InitCube ==
    /\ NcIdle
    /\ request \in Requests
    /\ dataset = NotBuilt
    /\ ArrayIdle
    /\ MetaIdle

OpenDataset ==
    /\ dataset.status = "none"
    /\ dataset' = open_dataset(request)
    /\ UNCHANGED request
    /\ UNCHANGED <<arrayVars, metaVars, ncVars>>

NextCube == OpenDataset

SpecCube == InitCube /\ [][NextCube]_vars

(***************************************************************************)
(* Inputs of open_dataset that vary the role table: one field carrying     *)
(* every metadata key a role may name, a profile with or without its own   *)
(* table, and a dim_roles argument naming any of three roles.              *)
(***************************************************************************)
RoleField ==
    [k \in {"number", "perturbationNumber", "realization", "level", "levelist",
            "dataDate", "dataTime", "step", "stepRange", "endStep"} |->
        CASE k \in {"level", "levelist"} -> 500
          [] k = "dataDate" -> 20200102
          [] k = "dataTime" -> 0
          [] k = "step" -> 6
          [] k = "stepRange" -> 12
          [] k = "endStep" -> 18
          [] OTHER -> 1]

RoleChoices ==
    [ens : {None, StrV("perturbationNumber"), StrV("realization")},
     level : {None, StrV("levelist"), StrV("level")},
     step : {None, StrV("stepRange"), StrV("endStep")}]

\* The dim_roles arguments: None, or a dict naming some of the roles.
DimRolesArgs ==
    {None} \cup
    { [role \in {r \in {"ens", "level", "step"} : c[r] # None} |-> c[role]] :
        c \in RoleChoices }

ProfileTable ==
    [DefaultDimRoles EXCEPT !["ens"] = StrV("realization"), !["level"] = StrV("levelist")]

RoleProfiles == Profiles \cup {OneKey("dim_roles", ProfileTable)}

RoleRequests ==
    {[fieldlist |-> [fields |-> <<RoleField>>, ek_builder |-> ekb],
      args |-> [NoKwargs EXCEPT !["profile"] = pr, !["dim_roles"] = dr,
                                !["squeeze"] = sq]] :
        ekb \in EkBuilders, pr \in RoleProfiles, dr \in DimRolesArgs, sq \in OptBool}

InitRoles ==
    /\ NcIdle
    /\ request \in RoleRequests
    /\ dataset = NotBuilt
    /\ ArrayIdle
    /\ MetaIdle

SpecRoles == InitRoles /\ [][NextCube]_vars

(***************************************************************************)
(* Claims about the hypercube build (checked under SpecCube).              *)
(***************************************************************************)
Built == dataset.status # "none"
InputFields == request.fieldlist.fields
\* The builder is the field list's own one when it has one; otherwise it is
\* made from the keyword arguments of the call.
OwnBuilder == request.fieldlist.ek_builder # None

\* The coordinate tuples of the fields, and the product of the value sets.
\* The forecast reference time of a field under the default roles.
RefTime(f) == datetime_from(f.dataDate, f.dataTime)
DimNames == {"number", "forecast_reference_time", "step", "level"}
FieldValue(f, d) == IF d = "forecast_reference_time" THEN RefTime(f) ELSE f[d]
Tuples ==
    {<<InputFields[k].number, RefTime(InputFields[k]), InputFields[k].step,
       InputFields[k].level>> : k \in 1..Len(InputFields)}
ValueSet(d) == {FieldValue(InputFields[k], d) : k \in 1..Len(InputFields)}
Product ==
    ValueSet("number") \X ValueSet("forecast_reference_time") \X ValueSet("step")
        \X ValueSet("level")
ExactCover == Tuples = Product /\ Cardinality(Tuples) = Len(InputFields)

StrictRequested ==
    IF OwnBuilder THEN request.fieldlist.ek_builder.strict
    ELSE request.args.strict = BoolV(TRUE)

\* C9: with strict=True the build succeeds only if the fields' coordinate
\* tuples are exactly the Cartesian product of the per-dimension value sets,
\* none occurring twice; a hole or a duplicate ends in an assembly error.
C9_StrictExactCover ==
    (Built /\ StrictRequested) =>
        /\ dataset.status = "ok" => ExactCover
        /\ ~ExactCover => dataset.status = "AssemblyError"

C9_Witness ==
    /\ Built
    /\ ~OwnBuilder
    /\ request.args.strict = BoolV(TRUE)
    /\ Cardinality(Product) = 4
    /\ Len(InputFields) = 4
    /\ Cardinality(Tuples) = 3
    /\ dataset.status = "AssemblyError"

SqueezeEnabled ==
    IF OwnBuilder THEN request.fieldlist.ek_builder.squeeze
    ELSE \/ request.args.squeeze = BoolV(TRUE)
         \/ /\ request.args.squeeze = None
            /\ "squeeze" \notin DOMAIN request.args.profile

EnsuredDims ==
    IF OwnBuilder THEN request.fieldlist.ek_builder.ensure_dims
    ELSE IF request.args.ensure_dims = None THEN {}
    ELSE request.args.ensure_dims.l

IsDim(d) == \E k \in 1..Len(dataset.dims) : dataset.dims[k] = d

AttrDims ==
    IF OwnBuilder THEN request.fieldlist.ek_builder.dims_as_attrs
    ELSE IF request.args.dims_as_attrs = None THEN {}
    ELSE request.args.dims_as_attrs.l

ProfileDefaults ==
    IF "dim_roles" \in DOMAIN request.args.profile
    THEN request.args.profile["dim_roles"]
    ELSE DefaultDimRoles
RolesOverride ==
    IF request.args.dim_roles = None THEN EmptyDict ELSE request.args.dim_roles

\* C11: the role table the builder works with is the profile's default
\* table updated key by key with dim_roles: a role named in dim_roles maps
\* to the key given there, every other role keeps its profile default.
C11_RolesUpdated ==
    (Built /\ ~OwnBuilder) =>
        /\ DOMAIN dataset.dim_roles = DOMAIN ProfileDefaults \cup DOMAIN RolesOverride
        /\ \A role \in DOMAIN dataset.dim_roles :
            dataset.dim_roles[role] =
                IF role \in DOMAIN RolesOverride THEN RolesOverride[role]
                ELSE ProfileDefaults[role]

C11_Witness ==
    /\ Built
    /\ ~OwnBuilder
    /\ DOMAIN RolesOverride = {"ens"}
    /\ ProfileDefaults = ProfileTable
    /\ dataset.dim_roles["ens"] = StrV("perturbationNumber")
    /\ dataset.dim_roles["level"] = StrV("levelist")
    /\ dataset.dims = <<"perturbationNumber", "forecast_reference_time", "step", "levelist">>

(***************************************************************************)
(* utils/xarray/engine.py: the dataset accessor's to_netcdf.               *)
(*                                                                         *)
(* A dataset object is its identity and, per data variable, a reference to *)
(* the variable's attrs dict; the dicts live in a heap, so that two        *)
(* datasets may or may not share one.                                      *)
(***************************************************************************)
AttrsRef(ds_id, var) == [ds |-> ds_id, var |-> var]

Dataset(id, names) ==
    [id |-> id, data_vars |-> names, attrs_ref |-> [v \in names |-> AttrsRef(id, v)]]

\* ds[var].attrs: the variable's own dict, not a copy.
var_attrs(heap, ds, var) == heap[ds.attrs_ref[var]]

\* Dataset.copy(): a new dataset whose variables are shallow copies, each
\* with an attrs dict of its own holding the same items.
dataset_copy(heap, ds, new_id) ==
    LET copy == Dataset(new_id, ds.data_vars)
    IN  [ds   |-> copy,
         heap |-> [r \in DOMAIN heap \cup {copy.attrs_ref[v] : v \in ds.data_vars} |->
                     IF r \in DOMAIN heap THEN heap[r]
                     ELSE heap[ds.attrs_ref[r.var]]]]

\* del d[key]
dict_del(d, key) == [k \in DOMAIN d \ {key} |-> d[k]]

\* The loop of _remove_earthkit_attrs over ds.data_vars.
del_earthkit(heap, ds) ==
    [r \in DOMAIN heap |->
        IF r \in {ds.attrs_ref[v] : v \in ds.data_vars} /\ "_earthkit" \in DOMAIN heap[r]
        THEN dict_del(heap[r], "_earthkit")
        ELSE heap[r]]

remove_earthkit_attrs_in_place(heap, ds, new_id) ==
    [ds |-> ds, heap |-> del_earthkit(heap, ds)]

\* XarrayEarthkitDataSet._remove_earthkit_attrs()
remove_earthkit_attrs(heap, ds, new_id) ==
    LET c == dataset_copy(heap, ds, new_id)
    IN  [ds |-> c.ds, heap |-> del_earthkit(c.heap, c.ds)]

\* XarrayEarthkitDataSet.to_netcdf(): the dataset handed to Dataset.to_netcdf,
\* the file's per-variable attributes, and the heap afterwards.
to_netcdf(acc) ==
    LET ds0 == acc.obj
        r == IF \E v \in ds0.data_vars : "_earthkit" \in DOMAIN var_attrs(acc.heap, ds0, v)
             THEN remove_earthkit_attrs(acc.heap, ds0, acc.calls + 1)
             ELSE [ds |-> ds0, heap |-> acc.heap]
    IN  [obj |-> acc.obj,
         heap |-> r.heap,
         calls |-> acc.calls + 1,
         written |-> [ds |-> r.ds,
                      file |-> [v \in r.ds.data_vars |-> var_attrs(r.heap, r.ds, v)]]]

(***************************************************************************)
(* Inputs of to_netcdf.                                                    *)
(***************************************************************************)
VarNames == <<"t", "z", "u", "v", "w">>
VarSets == {{VarNames[k] : k \in 1..n} : n \in 0..MaxVars}

AttrsChoices ==
    { EmptyDict,
      OneKey("_earthkit", StrV("message")),
      OneKey("units", StrV("K")),
      DictSet(OneKey("units", StrV("K")), "_earthkit", StrV("message")) }

Accessors ==
    UNION { { [obj |-> Dataset(0, names),
               heap |-> [r \in {AttrsRef(0, v) : v \in names} |-> a[r.var]],
               calls |-> 0,
               written |-> None] : a \in [names -> AttrsChoices] }
            : names \in VarSets }

InitNetcdf ==
    /\ accessor \in Accessors
    /\ ArrayIdle
    /\ MetaIdle
    /\ CubeIdle

ToNetcdf ==
    /\ accessor.calls < MaxCalls
    /\ accessor' = to_netcdf(accessor)
    /\ UNCHANGED <<arrayVars, metaVars, cubeVars>>

NextNetcdf == ToNetcdf

SpecNetcdf == InitNetcdf /\ [][NextNetcdf]_vars

(***************************************************************************)
(* Claims about to_netcdf (checked under SpecNetcdf).                      *)
(***************************************************************************)
\* The attrs of the accessor's own dataset, per data variable.
OwnAttrs(acc) == [v \in acc.obj.data_vars |-> acc.heap[acc.obj.attrs_ref[v]]]
HasEarthkit(acc) == \E v \in acc.obj.data_vars : "_earthkit" \in DOMAIN OwnAttrs(acc)[v]

\* C13: to_netcdf writes a dataset none of whose data variables carries
\* "_earthkit" and leaves the accessor's dataset as it was, every variable
\* keeping the "_earthkit" it had; when no variable has it, the accessor's
\* dataset itself is written, not a copy.
C13_WritesWithoutEarthkit ==
    [][accessor'.calls # accessor.calls =>
        /\ \A v \in DOMAIN accessor'.written.file :
               "_earthkit" \notin DOMAIN accessor'.written.file[v]
        /\ DOMAIN accessor'.written.file = accessor.obj.data_vars
        /\ accessor'.obj = accessor.obj
        /\ OwnAttrs(accessor') = OwnAttrs(accessor)
        /\ ~HasEarthkit(accessor) => accessor'.written.ds = accessor.obj
      ]_vars

C13_Witness ==
    /\ accessor.calls = 2
    /\ HasEarthkit(accessor)
    /\ accessor.written.ds # accessor.obj
    /\ \E v \in accessor.obj.data_vars :
        /\ "_earthkit" \in DOMAIN OwnAttrs(accessor)[v]
        /\ "units" \in DOMAIN accessor.written.file[v]
        /\ "_earthkit" \notin DOMAIN accessor.written.file[v]

=============================================================================
